---- MODULE Spec2Model ----
(***************************************************************************)
(* Model of src/main.py (ai_news_mailer): fetch news in the primary        *)
(* language, keep the AI-related articles, fall back to the second         *)
(* language when none is left, build the mail body and send it over SMTP.  *)
(*                                                                         *)
(* Strings are sequences of characters.  A character is a TLA+ string      *)
(* holding either one ASCII character or the name "U+XXXX" of one code     *)
(* point, so that lower(), join() and the substring test are computed      *)
(* as Python computes them.                                                *)
(***************************************************************************)
EXTENDS Integers, Sequences, FiniteSets, TLC

VARIABLES
    env,          \* NEWS_API_KEY, GMAIL_ADDRESS, GMAIL_APP_PASSWORD (lines 29-31)
    pc,           \* position of main(): the statement to run next
    primaryResp,  \* what request_news("ja") returned (history)
    fallbackResp, \* what request_news("en") returned (history)
    articles,     \* main's local variable articles
    today,        \* date.today().isoformat() as read by build_email_body
    body,         \* main's local variable body
    log,          \* the I/O operations performed so far, in order
    sent,         \* the bodies of the messages the mail server accepted
    exit,         \* the exit status of the process
    error,        \* the exception that ended the run
    probe,        \* an article handed to is_ai_related on its own
    verdict       \* what is_ai_related answered for probe

vars == <<env, pc, primaryResp, fallbackResp, articles, today, body, log, sent,
          exit, error, probe, verdict>>

-----------------------------------------------------------------------------
(* Python values: str, None, and a key missing from a dict.                *)

NL == "\n"

Str(s) == [k |-> "str", s |-> s]

Null == [k |-> "null", s |-> <<>>]

Missing == [k |-> "missing", s |-> <<>>]

\* dict.get(key, default): the default only when the key is missing.
Get(f, default) == IF f.k = "missing" THEN default ELSE f

\* v or "": None and "" are falsy.
OrEmpty(v) == IF v.k = "null" \/ v.s = <<>> THEN Str(<<>>) ELSE v

\* bool(v) of a str or None
Truthy(v) == v.k = "str" /\ v.s # <<>>

UPPER == <<"A", "B", "C", "D", "E", "F", "G", "H", "I", "J", "K", "L", "M",
           "N", "O", "P", "Q", "R", "S", "T", "U", "V", "W", "X", "Y", "Z">>

LOWER == <<"a", "b", "c", "d", "e", "f", "g", "h", "i", "j", "k", "l", "m",
           "n", "o", "p", "q", "r", "s", "t", "u", "v", "w", "x", "y", "z">>

\* str.lower() of one character: cased ASCII letters; the CJK characters,
\* digits and punctuation used here have no case.
LowerChar(c) ==
    IF \E i \in 1..Len(UPPER) : UPPER[i] = c
    THEN LOWER[CHOOSE i \in 1..Len(UPPER) : UPPER[i] = c]
    ELSE c

lower(s) == [i \in 1..Len(s) |-> LowerChar(s[i])]

\* sep.join(parts) for a list of str
RECURSIVE join(_, _)
join(sep, parts) ==
    IF parts = <<>> THEN <<>>
    ELSE IF Len(parts) = 1 THEN parts[1]
    ELSE parts[1] \o sep \o join(sep, Tail(parts))

\* k in text
In(k, text) ==
    \E i \in 1..(Len(text) - Len(k) + 1) : SubSeq(text, i, i + Len(k) - 1) = k

-----------------------------------------------------------------------------
(* The filter.                                                             *)

KEYWORDS ==
    << <<"a", "r", "t", "i", "f", "i", "c", "i", "a", "l", " ",
         "i", "n", "t", "e", "l", "l", "i", "g", "e", "n", "c", "e">>,
       <<"o", "p", "e", "n", "a", "i">>,
       <<"c", "h", "a", "t", "g", "p", "t">>,
       <<"l", "l", "m">>,
       <<"U+751F", "U+6210", "a", "i">>,
       <<"U+4EBA", "U+5DE5", "U+77E5", "U+80FD">> >>

\* k.lower() for k in KEYWORDS (line 66)
LoweredKeywords == [n \in 1..Len(KEYWORDS) |-> lower(KEYWORDS[n])]

\* The three values joined at lines 58-64.
FilterParts(article) ==
    << Get(article.title, Str(<<>>)),
       OrEmpty(Get(article.description, Str(<<>>))),
       OrEmpty(Get(article.content, Str(<<>>))) >>

\* is_ai_related with lower() left out of the text
is_ai_related_NoLower(article) ==
    LET parts == FilterParts(article) IN
    IF \E i \in 1..3 : parts[i].k # "str" THEN "TypeError"
    ELSE IF \E text \in {join(<<" ">>, [i \in 1..3 |-> parts[i].s])} :
               \E n \in 1..Len(KEYWORDS) : In(LoweredKeywords[n], text)
         THEN "True" ELSE "False"

\* " ".join of a list holding None raises TypeError; otherwise the answer
\* is any(k.lower() in text for k in KEYWORDS), text being computed once.
is_ai_related(article) ==
    LET parts == FilterParts(article) IN
    IF \E i \in 1..3 : parts[i].k # "str" THEN "TypeError"
    ELSE IF \E text \in {lower(join(<<" ">>, [i \in 1..3 |-> parts[i].s]))} :
               \E n \in 1..Len(KEYWORDS) : In(LoweredKeywords[n], text)
         THEN "True" ELSE "False"

-----------------------------------------------------------------------------
(* Field values the articles are drawn from.                               *)

TitleValues ==
    { Missing, Null, Str(<<>>),
      Str(<<"L", "L", "M">>),
      Str(<<"l", "l">>),
      Str(<<"A", "r", "t", "i", "f", "i", "c", "i", "a", "l">>),
      Str(<<"C", "h", "a", "t">>),
      Str(<<"U+751F", "U+6210", "A", "I">>),
      Str(<<"x">>) }

DescriptionValues ==
    { Missing, Null, Str(<<>>),
      Str(<<"m">>),
      Str(<<"I", "n", "t", "e", "l", "l", "i", "g", "e", "n", "c", "e">>),
      Str(<<"G", "P", "T">>),
      Str(<<"h", "e", "l", "l", "m", "a", "n">>),
      Str(<<"d">>) }

ContentValues ==
    { Missing, Null, Str(<<>>),
      Str(<<"O", "P", "E", "N", "a", "i">>),
      Str(<<"y">>) }

FilterArticles ==
    [title : TitleValues, description : DescriptionValues,
     content : ContentValues, url : {Missing}]

-----------------------------------------------------------------------------
(* The formatter.                                                          *)

DIGITS == <<"0", "1", "2", "3", "4", "5", "6", "7", "8", "9">>

\* str(n) of a natural number
RECURSIVE str(_)
str(n) == IF n < 10 THEN <<DIGITS[n + 1]>> ELSE str(n \div 10) \o <<DIGITS[(n % 10) + 1]>>

\* What an f-string writes for a str or None
Format(v) == IF v.k = "null" THEN <<"N", "o", "n", "e">> ELSE v.s

\* " / AI<kanren nyuusu> " of line 89
HEADER_LABEL ==
    <<" ", "/", " ", "A", "I", "U+95A2", "U+9023", "U+30CB", "U+30E5", "U+30FC",
      "U+30B9", " ">>

\* "<ken>", the counter word closing the header of line 89
HEADER_UNIT == <<"U+4EF6">>

\* The sentence of line 87
NOT_FOUND ==
    <<"U+672C", "U+65E5", "U+306F", "A", "I", "U+95A2", "U+9023", "U+306E",
      "U+65B0", "U+7740", "U+30CB", "U+30E5", "U+30FC", "U+30B9", "U+306F",
      "U+898B", "U+3064", "U+304B", "U+308A", "U+307E", "U+305B", "U+3093",
      "U+3067", "U+3057", "U+305F", "U+3002">>

\* The bullet and the space that open a title line (line 96)
BULLET == <<"U+25A0", " ">>

NO_TITLE == <<"(", "n", "o", " ", "t", "i", "t", "l", "e", ")">>

\* The loop body with "if desc:" left out: the description is always appended
EntryLines_AlwaysDescription(a) ==
    LET title == Get(a.title, Str(NO_TITLE))
        desc  == OrEmpty(Get(a.description, Null))
        url   == Get(a.url, Str(<<>>))
    IN  << BULLET \o Format(title) >>
        \o <<desc.s>>
        \o (IF Truthy(url) THEN <<url.s>> ELSE <<>>)
        \o << <<>> >>

\* The lines one pass of the loop of lines 91-101 appends
EntryLines(a) ==
    LET title == Get(a.title, Str(NO_TITLE))
        desc  == OrEmpty(Get(a.description, Null))
        url   == Get(a.url, Str(<<>>))
    IN  << BULLET \o Format(title) >>
        \o (IF Truthy(desc) THEN <<desc.s>> ELSE <<>>)
        \o (IF Truthy(url) THEN <<url.s>> ELSE <<>>)
        \o << <<>> >>

RECURSIVE AllEntryLines(_)
AllEntryLines(as) ==
    IF as = <<>> THEN <<>> ELSE EntryLines(as[1]) \o AllEntryLines(Tail(as))

\* build_email_body with the empty list given no message of its own
build_email_body_NoEmptyCase(day, as) ==
    join(<<NL>>,
         << day \o HEADER_LABEL \o str(Len(as)) \o HEADER_UNIT, <<>> >>
         \o AllEntryLines(as))

\* build_email_body(articles), with date.today().isoformat() = day
build_email_body(day, as) ==
    IF as = <<>>
    THEN day \o <<NL, NL>> \o NOT_FOUND
    ELSE join(<<NL>>,
              << day \o HEADER_LABEL \o str(Len(as)) \o HEADER_UNIT, <<>> >>
              \o AllEntryLines(as))

-----------------------------------------------------------------------------
(* The inputs of one run.                                                  *)

\* The longest "articles" array a response holds
MaxArticles == 3

\* The longest list handed to build_email_body on its own
MaxDigest == 2

\* os.getenv: not set (None), set to "", or set to a value
Config == {"unset", "empty", "set"}

\* not VALUE
Absent(v) == v \in {"unset", "empty"}

Dates == { <<"2", "0", "2", "6", "-", "1", "1", "-", "0", "5">>,
           <<"2", "0", "2", "6", "-", "1", "1", "-", "0", "6">> }

\* Articles of the news endpoint: two AI-related ones (the second only
\* through the space that joins title and description), one unrelated,
\* and one whose title is null.
NewsArticles ==
    { [title |-> Str(<<"L", "L", "M">>), description |-> Str(<<"d">>),
       content |-> Null, url |-> Str(<<"u">>)],
      [title |-> Str(<<"A", "r", "t", "i", "f", "i", "c", "i", "a", "l">>),
       description |-> Str(<<"I", "n", "t", "e", "l", "l", "i", "g", "e", "n", "c", "e">>),
       content |-> Missing, url |-> Missing],
      [title |-> Str(<<"x">>), description |-> Null,
       content |-> Str(<<"y">>), url |-> Str(<<"u">>)],
      [title |-> Null, description |-> Str(<<"L", "L", "M">>),
       content |-> Missing, url |-> Str(<<"u">>)] }

SeqsUpTo(S, n) == UNION { [1..m -> S] : m \in 0..n }

Responses == SeqsUpTo(NewsArticles, MaxArticles)

NoResult == [st |-> "none", arts |-> <<>>]

\* What a call of request_news ends with: the list returned, or the
\* exception raised (HTTPError is a RequestException).
Results ==
    { [st |-> "ok", arts |-> r] : r \in Responses }
    \cup { [st |-> e, arts |-> <<>>] : e \in {"RuntimeError", "RequestException"} }

-----------------------------------------------------------------------------
(* main.                                                                   *)

Init ==
    /\ env \in [api : Config, addr : Config, pw : Config]
    /\ pc = "primary"
    /\ primaryResp = NoResult
    /\ fallbackResp = NoResult
    /\ articles = <<>>
    /\ today = <<>>
    /\ body = <<>>
    /\ log = <<>>
    /\ sent = <<>>
    /\ exit = -1
    /\ error = "none"
    /\ probe = [title |-> Missing, description |-> Missing,
                content |-> Missing, url |-> Missing]
    /\ verdict = "none"

\* An exception nobody catches: the interpreter exits with status 1.
Raise(e) == pc' = "aborted" /\ exit' = 1 /\ error' = e

\* request_news without the check of line 159
request_news_NoKeyCheck(language, result) ==
    /\ result.st \in {"ok", "RequestException"}
    /\ log' = Append(log, <<"GET", language>>)

\* request_news(language) ending with result: the key is checked first,
\* then one GET is sent.
request_news(language, result) ==
    IF Absent(env.api)
    THEN result.st = "RuntimeError" /\ log' = log
    ELSE result.st \in {"ok", "RequestException"}
         /\ log' = Append(log, <<"GET", language>>)

\* The comprehension with its condition left out
Comprehension_KeepAll(arts) == [st |-> "ok", arts |-> arts]

\* [a for a in result if is_ai_related(a)]
Comprehension(arts) ==
    IF \E i \in 1..Len(arts) : is_ai_related(arts[i]) = "TypeError"
    THEN [st |-> "TypeError", arts |-> <<>>]
    ELSE [st |-> "ok", arts |-> SelectSeq(arts, LAMBDA a : is_ai_related(a) = "True")]

\* articles = [a for a in request_news(language) if is_ai_related(a)]
FetchAndFilter(language, result) ==
    /\ request_news(language, result)
    /\ IF result.st # "ok"
       THEN Raise(result.st) /\ UNCHANGED articles
       ELSE LET kept == Comprehension(result.arts) IN
            IF kept.st # "ok"
            THEN Raise(kept.st) /\ UNCHANGED articles
            ELSE articles' = kept.arts /\ UNCHANGED <<exit, error>>
                 /\ pc' = IF pc = "primary" THEN "rescue" ELSE "format"

\* line 190
FetchPrimary ==
    /\ pc = "primary"
    /\ \E result \in Results :
          /\ FetchAndFilter("ja", result)
          /\ primaryResp' = result
    /\ UNCHANGED <<env, fallbackResp, today, body, sent, probe, verdict>>

\* The rescue fetch made whatever the first fetch kept
NeedsRescue_Always == TRUE

\* if not articles (line 193)
NeedsRescue == articles = <<>>

\* lines 193-194, the branch taken
FetchFallback ==
    /\ pc = "rescue"
    /\ NeedsRescue
    /\ \E result \in Results :
          /\ FetchAndFilter("en", result)
          /\ fallbackResp' = result
    /\ UNCHANGED <<env, primaryResp, today, body, sent, probe, verdict>>

\* line 193, the branch skipped
SkipFallback ==
    /\ pc = "rescue"
    /\ ~NeedsRescue
    /\ pc' = "format"
    /\ UNCHANGED <<env, primaryResp, fallbackResp, articles, today, body, log,
                   sent, exit, error, probe, verdict>>

\* line 196
BuildBody ==
    /\ pc = "format"
    /\ \E day \in Dates :
          /\ today' = day
          /\ body' = build_email_body(day, articles)
    /\ pc' = "send"
    /\ UNCHANGED <<env, primaryResp, fallbackResp, articles, log, sent, exit,
                   error, probe, verdict>>

\* The check of line 121 with "and" for "or"
MailConfigAbsent_Both == Absent(env.addr) /\ Absent(env.pw)

\* The check of line 121 looking at the address only
MailConfigAbsent_OnlyAddress == Absent(env.addr)

\* if not GMAIL_ADDRESS or not GMAIL_APP_PASSWORD (line 121)
MailConfigAbsent == Absent(env.addr) \/ Absent(env.pw)

\* send_email up to the SMTP_SSL constructor (lines 121-132): the check of
\* the configuration, then the connection, which may fail.
OpenSession ==
    /\ pc = "send"
    /\ IF MailConfigAbsent
       THEN Raise("RuntimeError") /\ UNCHANGED log
       ELSE /\ log' = Append(log, <<"SMTP_SSL">>)
            /\ \/ pc' = "login" /\ UNCHANGED <<exit, error>>
               \/ Raise("OSError")
    /\ UNCHANGED <<env, primaryResp, fallbackResp, articles, today, body, sent,
                   probe, verdict>>

\* server.login (line 133); on failure the with block sends QUIT on its
\* way out and the exception goes on.
Login ==
    /\ pc = "login"
    /\ \/ /\ log' = Append(log, <<"login">>)
          /\ pc' = "send_message"
          /\ UNCHANGED <<exit, error>>
       \/ /\ log' = log \o << <<"login">>, <<"QUIT">> >>
          /\ Raise("SMTPException")
    /\ UNCHANGED <<env, primaryResp, fallbackResp, articles, today, body, sent,
                   probe, verdict>>

\* server.send_message (line 134): the server takes the message or not.
SendMessage ==
    /\ pc = "send_message"
    /\ \/ /\ log' = Append(log, <<"send_message">>)
          /\ sent' = Append(sent, body)
          /\ pc' = "quit"
          /\ UNCHANGED <<exit, error>>
       \/ /\ log' = log \o << <<"send_message">>, <<"QUIT">> >>
          /\ Raise("SMTPException")
          /\ UNCHANGED sent
    /\ UNCHANGED <<env, primaryResp, fallbackResp, articles, today, body,
                   probe, verdict>>

\* The end of the with block (line 132): SMTP.__exit__ sends QUIT and raises
\* SMTPResponseException when the reply is not 221; main then returns.
CloseSession ==
    /\ pc = "quit"
    /\ log' = Append(log, <<"QUIT">>)
    /\ \/ pc' = "done" /\ exit' = 0 /\ UNCHANGED error
       \/ Raise("SMTPResponseException")
    /\ UNCHANGED <<env, primaryResp, fallbackResp, articles, today, body, sent,
                   probe, verdict>>

Next ==
    \/ FetchPrimary
    \/ FetchFallback
    \/ SkipFallback
    \/ BuildBody
    \/ OpenSession
    \/ Login
    \/ SendMessage
    \/ CloseSession

Spec == Init /\ [][Next]_vars

-----------------------------------------------------------------------------
(* is_ai_related on its own: one article in, one answer out.               *)

\* The run's variables while a function is exercised on its own
Idle ==
    /\ env = [api |-> "set", addr |-> "set", pw |-> "set"]
    /\ primaryResp = NoResult
    /\ fallbackResp = NoResult
    /\ today = <<>>
    /\ body = <<>>
    /\ log = <<>>
    /\ sent = <<>>
    /\ exit = -1
    /\ error = "none"

FilterInit ==
    /\ Idle
    /\ pc = "is_ai_related"
    /\ articles = <<>>
    /\ probe \in FilterArticles
    /\ verdict = "none"

\* lines 58-66
Classify ==
    /\ pc = "is_ai_related"
    /\ verdict' = is_ai_related(probe)
    /\ pc' = "returned"
    /\ UNCHANGED <<env, primaryResp, fallbackResp, articles, today, body, log,
                   sent, exit, error, probe>>

FilterSpec == FilterInit /\ [][Classify]_vars

-----------------------------------------------------------------------------
(* build_email_body on its own: any list of articles in, the body out.     *)

\* Titles, descriptions and URLs present, empty, null and missing; a
\* description that opens with the bullet, and one of two lines.
DigestArticles ==
    { [title |-> Str(<<"L", "L", "M">>), description |-> Str(<<"d">>),
       content |-> Missing, url |-> Str(<<"u">>)],
      [title |-> Str(<<"t">>), description |-> Null,
       content |-> Missing, url |-> Missing],
      [title |-> Str(<<"t">>), description |-> Str(<<>>),
       content |-> Missing, url |-> Str(<<>>)],
      [title |-> Missing, description |-> Missing,
       content |-> Missing, url |-> Null],
      [title |-> Null, description |-> Str(<<"d">>),
       content |-> Missing, url |-> Str(<<"u">>)],
      [title |-> Str(<<>>), description |-> Str(<<"U+25A0", " ", "d">>),
       content |-> Missing, url |-> Str(<<"u">>)],
      [title |-> Str(<<"t">>), description |-> Str(<<"d", NL, "U+25A0", "e">>),
       content |-> Missing, url |-> Missing],
      [title |-> Str(<<"L", "L", "M">>), description |-> Missing,
       content |-> Missing, url |-> Str(<<"u">>)] }

DigestInit ==
    /\ Idle
    /\ pc = "format"
    /\ articles \in SeqsUpTo(DigestArticles, MaxDigest)
    /\ probe = [title |-> Missing, description |-> Missing,
                content |-> Missing, url |-> Missing]
    /\ verdict = "none"

DigestSpec == DigestInit /\ [][BuildBody]_vars

-----------------------------------------------------------------------------
(* What the properties below read off a state.                             *)

\* The lines of a text: the pieces between its line breaks
RECURSIVE LinesFrom(_, _, _)
LinesFrom(t, start, i) ==
    IF i > Len(t) THEN <<SubSeq(t, start, Len(t))>>
    ELSE IF t[i] = NL THEN <<SubSeq(t, start, i - 1)>> \o LinesFrom(t, i + 1, i + 1)
    ELSE LinesFrom(t, start, i + 1)

Lines(t) == LinesFrom(t, 1, 1)

\* A line that opens with the bullet
Bulleted(line) == Len(line) > 0 /\ line[1] = "U+25A0"

BulletLines(L) == Cardinality({i \in 1..Len(L) : Bulleted(L[i])})

\* The text of a field, absent fields counting as the empty text
FieldText(f) == IF f.k = "str" THEN f.s ELSE <<>>

\* Two characters equal up to the case of an ASCII letter
CaseEq(c, d) ==
    c = d \/ \E i \in 1..Len(UPPER) : {c, d} = {UPPER[i], LOWER[i]}

\* keyword occurs in text, in any casing, at any position
OccursIgnoringCase(keyword, text) ==
    \E i \in 0..(Len(text) - Len(keyword)) :
        \A j \in 1..Len(keyword) : CaseEq(text[i + j], keyword[j])

AnyKeywordIn(text) ==
    \E n \in 1..Len(KEYWORDS) : OccursIgnoringCase(KEYWORDS[n], text)

\* Title, description and content written one after the other
PlainText(a) ==
    FieldText(a.title) \o FieldText(a.description) \o FieldText(a.content)

\* Title, description and content with one space between them
SpacedText(a) ==
    FieldText(a.title) \o <<" ">> \o FieldText(a.description) \o <<" ">>
    \o FieldText(a.content)

\* The article with every absent field made the empty string
Blanked(a) ==
    LET blank(f) == IF f.k = "str" THEN f ELSE Str(<<>>)
    IN  [title |-> blank(a.title), description |-> blank(a.description),
         content |-> blank(a.content), url |-> a.url]

\* The articles of a response that is_ai_related accepts, in order
Matching(arts) == SelectSeq(arts, LAMBDA a : is_ai_related(a) = "True")

\* The articles the digest is about: the primary ones that match, and the
\* fallback ones that match when there is none
FinalArticles ==
    IF Matching(primaryResp.arts) # <<>>
    THEN Matching(primaryResp.arts)
    ELSE Matching(fallbackResp.arts)

HeaderLine(day, n) == day \o HEADER_LABEL \o str(n) \o HEADER_UNIT

PrimaryGets == {i \in 1..Len(log) : log[i] = <<"GET", "ja">>}

FallbackGets == {i \in 1..Len(log) : log[i] = <<"GET", "en">>}

Sessions == {i \in 1..Len(log) : log[i] = <<"SMTP_SSL">>}

\* The first fetch returned and the filter kept none of its articles
PrimaryKeptNothing ==
    /\ primaryResp.st = "ok"
    /\ \A i \in 1..Len(primaryResp.arts) : is_ai_related(primaryResp.arts[i]) = "False"

\* send_email has been called
SendEntered == body # <<>> /\ pc # "send"

MailValueAbsent == env.addr \in {"unset", "empty"} \/ env.pw \in {"unset", "empty"}

KeyAbsent == env.api \in {"unset", "empty"}

Ended == pc \in {"done", "aborted"}

-----------------------------------------------------------------------------
(* C1 *)

\* C1 as stated, its last part: every run that has entered the send stage
\* has opened exactly one mail session.
C1_OneMailSession == SendEntered => Cardinality(Sessions) = 1

\* C1, amended: the fallback fetch is made if and only if the primary fetch
\* returned and the filter answered false for each of its articles (a
\* filter that raises ends the run), at most once and after the
\* primary fetch; a run sends at most two requests to the news endpoint;
\* every fetch precedes the mail session; a run that has entered the send
\* stage has opened exactly one mail session when both mail values are
\* configured and none when one is absent.
C1_FetchOrder ==
    /\ Cardinality(PrimaryGets) <= 1
    /\ Cardinality(FallbackGets) <= 1
    /\ Cardinality(Sessions) <= 1
    /\ FallbackGets # {} =>
          /\ PrimaryKeptNothing
          /\ \A i \in FallbackGets : \E j \in PrimaryGets : j < i
    /\ (PrimaryKeptNothing /\ pc \notin {"primary", "rescue"}) => FallbackGets # {}
    /\ fallbackResp # NoResult => FallbackGets # {}
    /\ \A g \in PrimaryGets \cup FallbackGets : \A m \in Sessions : g < m
    /\ SendEntered => Cardinality(Sessions) = (IF MailValueAbsent THEN 0 ELSE 1)

\* A run that made both fetches and then its mail session, to the end
C1_Witness == pc = "done" /\ FallbackGets # {} /\ Sessions # {}

-----------------------------------------------------------------------------
(* C2 *)

\* C2: the body handed to the sender is build_email_body of the matching
\* primary articles, or of the matching fallback articles when no primary
\* article matches; its header counts exactly those articles, and what the
\* server is given is that body.
C2_DigestOfFiltered ==
    body # <<>> =>
        \A F \in {FinalArticles} :
            /\ articles = F
            /\ body = build_email_body(today, F)
            /\ F # <<>> => Lines(body)[1] = HeaderLine(today, Len(F))
            /\ \A i \in 1..Len(sent) : sent[i] = body

\* Three primary articles of which two match: a digest of those two, sent
C2_Witness ==
    /\ pc = "done"
    /\ Len(primaryResp.arts) = 3
    /\ Len(articles) = 2
    /\ Lines(body)[1] = HeaderLine(today, 2)
    /\ sent = <<body>>

-----------------------------------------------------------------------------
(* C3 *)

\* C3: a run ends either with status zero and exactly one message
\* transmitted, or with a non-zero status and no message transmitted.
C3_AllOrNothing ==
    Ended => \/ exit = 0 /\ Len(sent) = 1
             \/ exit # 0 /\ sent = <<>>

-----------------------------------------------------------------------------
(* C4 *)

\* C4: with the API key unset or empty the run aborts with the
\* configuration error and has sent no request, opened no mail session and
\* sent no message.
C4_NoKeyNoRequest ==
    KeyAbsent =>
        /\ log = <<>>
        /\ sent = <<>>
        /\ body = <<>>
        /\ primaryResp.st \in {"none", "RuntimeError"}
        /\ fallbackResp = NoResult
        /\ pc # "primary" => pc = "aborted" /\ error = "RuntimeError" /\ exit = 1

C4_Witness == env.api = "empty" /\ pc = "aborted" /\ error = "RuntimeError"

-----------------------------------------------------------------------------
(* C5 *)

-----------------------------------------------------------------------------
(* C6 *)

\* C6 as stated: a run with any of the three values absent aborts with the
\* configuration error and has performed no network operation.
C6_ConfigBeforeAnyIO ==
    (KeyAbsent \/ MailValueAbsent) =>
        /\ log = <<>>
        /\ Ended => pc = "aborted" /\ error = "RuntimeError"

\* C6, amended: each value is checked before the network operation of its
\* own stage.  An absent API key: no network operation at all.  An absent
\* mail value: no mail session, and the configuration error once send is
\* entered, the requests to the news endpoint having been made before.  A
\* run with a value absent never completes and sends no message.
C6_ConfigBeforeStageIO ==
    /\ KeyAbsent => log = <<>> /\ (Ended => error = "RuntimeError")
    /\ MailValueAbsent =>
          /\ Sessions = {}
          /\ SendEntered => pc = "aborted" /\ error = "RuntimeError"
    /\ (KeyAbsent \/ MailValueAbsent) => pc # "done" /\ sent = <<>>

\* The configuration error for an unset address, after a request was sent
C6_Witness ==
    /\ env.addr = "unset"
    /\ pc = "aborted"
    /\ error = "RuntimeError"
    /\ PrimaryGets # {}

-----------------------------------------------------------------------------
(* C7 *)

-----------------------------------------------------------------------------
(* C8 *)

\* C8: whatever fields are absent, is_ai_related answers true or false, and
\* answers what it answers for the article with those fields made "".
C8_AbsentAsEmpty ==
    verdict # "none" =>
        /\ verdict \in {"True", "False"}
        /\ verdict = is_ai_related(Blanked(probe))

-----------------------------------------------------------------------------
(* C9 *)

\* C9 as stated: the body for no article is two lines, the date and the
\* sentence.
C9_TwoLines ==
    (pc = "send" /\ articles = <<>>) => Lines(body) = <<today, NOT_FOUND>>

\* C9, amended: the body for no article is three lines, the date, an empty
\* line and the sentence, with no bullet in it; no body for a non-empty
\* list is such a text, for any date.
C9_EmptyDigest ==
    pc = "send" =>
        /\ articles = <<>> =>
              /\ Lines(body) = <<today, <<>>, NOT_FOUND>>
              /\ \A i \in 1..Len(body) : body[i] # "U+25A0"
        /\ articles # <<>> =>
              \A day \in Dates : Lines(body) # <<day, <<>>, NOT_FOUND>>

C9_Witness == pc = "send" /\ articles = <<>> /\ Len(Lines(body)) = 3

-----------------------------------------------------------------------------
(* C10 *)

\* The line of a title: the title after the bullet, "(no title)" for a
\* missing key, "None" for null
TitleLine(a) ==
    BULLET \o (CASE a.title.k = "str" -> a.title.s
                 [] a.title.k = "missing" -> NO_TITLE
                 [] a.title.k = "null" -> <<"N", "o", "n", "e">>)

\* The line or lines of a text that is there
TextLines(f) == IF f.k = "str" /\ Len(f.s) > 0 THEN Lines(f.s) ELSE <<>>

RECURSIVE EntriesOf(_)
EntriesOf(as) ==
    IF as = <<>> THEN <<>>
    ELSE <<TitleLine(as[1])>> \o TextLines(as[1].description)
         \o TextLines(as[1].url) \o << <<>> >> \o EntriesOf(Tail(as))

\* The lines of descriptions and URLs that themselves open with the bullet
EmbeddedBullets(as) ==
    LET n(a) == BulletLines(TextLines(a.description)) + BulletLines(TextLines(a.url))
        sum[i \in 0..Len(as)] == IF i = 0 THEN 0 ELSE sum[i - 1] + n(as[i])
    IN  sum[Len(as)]

\* C10 as stated, its count: as many bullet lines as articles.
C10_BulletCount ==
    (pc = "send" /\ articles # <<>>) => BulletLines(Lines(body)) = Len(articles)

\* C10, amended: the body for a non-empty list is the header with the date
\* and the count, an empty line, and per article in order the bulleted
\* title, the description when non-empty, the URL when non-empty and an
\* empty line; the count of the header is the length of the list; the
\* lines opening with the bullet are the title lines and those lines of a
\* description or URL that open with it, so at least as many as articles
\* and exactly as many when no description or URL has such a line.
C10_Layout ==
    (pc = "send" /\ articles # <<>>) =>
        LET L == Lines(body) IN
        /\ L = <<HeaderLine(today, Len(articles)), <<>> >> \o EntriesOf(articles)
        /\ BulletLines(L) = Len(articles) + EmbeddedBullets(articles)
        /\ BulletLines(L) >= Len(articles)

\* Two articles, the first with description and URL, the second with
\* neither: five lines for the entries, two of them bulleted
C10_Witness ==
    /\ pc = "send"
    /\ Len(articles) = 2
    /\ articles[1].description = Str(<<"d">>) /\ articles[1].url = Str(<<"u">>)
    /\ articles[2].description = Null /\ articles[2].url = Missing
    /\ Len(Lines(body)) = 8
    /\ BulletLines(Lines(body)) = 2

====
